---- MODULE Spec2Model ----
(***************************************************************************)
(* Name resolution of wiremix (src/config/names.rs): Names::resolve, the   *)
(* TagResolver implementations of Device, Node and Client, and the         *)
(* NameResolver implementations of Device and Node, over an object graph   *)
(* that monitor events keep changing.                                      *)
(***************************************************************************)
EXTENDS Naturals, Sequences, FiniteSets, TLC

VARIABLES
    names,      \* the config::Names in use
    devices,    \* state.devices: ObjectId -> Device
    nodes,      \* state.nodes: ObjectId -> Node
    clients,    \* state.clients: ObjectId -> Client
    last,       \* the most recent call of Names::resolve, if no event came since
    hist        \* what earlier calls found of the node that is there now

vars == <<names, devices, nodes, clients, last, hist>>

(***************************************************************************)
(* Option<T>: None is the empty sequence, Some(v) the one-element one.     *)
(***************************************************************************)
None == <<>>
Some(v) == <<v>>
Unwrap(o) == o[1]
(* Option::unwrap_or *)
UnwrapOr(o, default) == IF o = None THEN default ELSE Unwrap(o)

(***************************************************************************)
(* config::tag::Tag                                                        *)
(***************************************************************************)
DeviceTags == {"DeviceName", "DeviceNick", "DeviceDescription"}
NodeTags == {"NodeName", "NodeNick", "NodeDescription", "MediaName"}
ClientTags == {"ApplicationName", "ApplicationProcessBinary"}

TagDevice(t) == [kind |-> "Device", tag |-> t]
TagNode(t) == [kind |-> "Node", tag |-> t]
TagClient(t) == [kind |-> "Client", tag |-> t]

Tags ==
    {TagDevice(t) : t \in DeviceTags} \cup {TagNode(t) : t \in NodeTags}
        \cup {TagClient(t) : t \in ClientTags}

(***************************************************************************)
(* config::name_template::NameTemplate: a sequence of segments.            *)
(***************************************************************************)
Literal(s) == [seg |-> "Literal", text |-> s]
TagSeg(t) == [seg |-> "Tag", tag |-> t]

(* NameTemplate::render: literals and resolved tags in segment order; the  *)
(* first tag that does not resolve ends the render with None.  resolve_fn  *)
(* is the closure, as a function of the tag.                               *)
RECURSIVE RenderFrom(_, _, _, _)
RenderFrom(template, i, acc, resolve_fn) ==
    IF i > Len(template) THEN Some(acc)
    ELSE IF template[i].seg = "Literal"
         THEN RenderFrom(template, i + 1, acc \o template[i].text, resolve_fn)
         ELSE LET v == resolve_fn[template[i].tag] IN
              IF v = None THEN None
              ELSE RenderFrom(template, i + 1, acc \o Unwrap(v), resolve_fn)

render(template, resolve_fn) == RenderFrom(template, 1, "", resolve_fn)

(***************************************************************************)
(* The object identifiers of the test fixture.                             *)
(***************************************************************************)
device_id == 0
node_id == 1
client_id == 2

(* Identifiers up to MaxObjectId exist; those above the fixture's name     *)
(* objects that no event announces.                                        *)
MaxObjectId == 2
ObjectIds == 0..MaxObjectId
UnknownIds == ObjectIds \ {device_id, node_id, client_id}

State == [devices |-> devices, nodes |-> nodes, clients |-> clients]

(* HashMap::get *)
Get(map, id) == IF id \in DOMAIN map THEN Some(map[id]) ELSE None

(* DeviceResolveTag, but a device without a nick answers with its name. *)
DeviceResolveTag_NickOrName(self, state, tag) ==
    CASE tag = TagDevice("DeviceName") -> self.name
      [] tag = TagDevice("DeviceNick") ->
            IF self.nick # None THEN self.nick ELSE self.name
      [] tag = TagDevice("DeviceDescription") -> self.description
      [] tag.kind = "Node" -> None
      [] tag.kind = "Client" -> None

(***************************************************************************)
(* impl TagResolver for state::Device                                      *)
(***************************************************************************)
DeviceResolveTag(self, state, tag) ==
    CASE tag = TagDevice("DeviceName") -> self.name
      [] tag = TagDevice("DeviceNick") -> self.nick
      [] tag = TagDevice("DeviceDescription") -> self.description
      [] tag.kind = "Node" -> None
      [] tag.kind = "Client" -> None

(***************************************************************************)
(* impl TagResolver for state::Client                                      *)
(***************************************************************************)
ClientResolveTag(self, state, tag) ==
    CASE tag = TagClient("ApplicationName") -> self.application_name
      [] tag = TagClient("ApplicationProcessBinary") ->
            self.application_process_binary
      [] tag.kind = "Node" -> None
      [] tag.kind = "Device" -> None

(* NodeResolveTag, but a Device tag is answered by whichever device the     *)
(* state holds, linked or not.                                             *)
NodeResolveTag_AnyDevice(self, state, tag) ==
    CASE tag = TagNode("NodeName") -> self.name
      [] tag = TagNode("NodeNick") -> self.nick
      [] tag = TagNode("NodeDescription") -> self.description
      [] tag = TagNode("MediaName") -> self.media_name
      [] tag.kind = "Device" ->
            IF DOMAIN state.devices = {} THEN None
            ELSE DeviceResolveTag(
                    state.devices[CHOOSE id \in DOMAIN state.devices : TRUE],
                    state, tag)
      [] tag.kind = "Client" ->
            IF self.client_id = None THEN None
            ELSE LET client == Get(state.clients, Unwrap(self.client_id)) IN
                 IF client = None THEN None
                 ELSE ClientResolveTag(Unwrap(client), state, tag)

(***************************************************************************)
(* impl TagResolver for state::Node                                        *)
(***************************************************************************)
NodeResolveTag(self, state, tag) ==
    CASE tag = TagNode("NodeName") -> self.name
      [] tag = TagNode("NodeNick") -> self.nick
      [] tag = TagNode("NodeDescription") -> self.description
      [] tag = TagNode("MediaName") -> self.media_name
      [] tag.kind = "Device" ->
            IF self.device_id = None THEN None
            ELSE LET device == Get(state.devices, Unwrap(self.device_id)) IN
                 IF device = None THEN None
                 ELSE DeviceResolveTag(Unwrap(device), state, tag)
      [] tag.kind = "Client" ->
            IF self.client_id = None THEN None
            ELSE LET client == Get(state.clients, Unwrap(self.client_id)) IN
                 IF client = None THEN None
                 ELSE ClientResolveTag(Unwrap(client), state, tag)

(* A resolver is an object with its kind: the T of resolve<T>. *)
DeviceResolver(d) == [kind |-> "Device", obj |-> d]
NodeResolver(n) == [kind |-> "Node", obj |-> n]

(* TagResolver::resolve_tag, dispatched on the implementing type *)
resolve_tag(resolver, state, tag) ==
    IF resolver.kind = "Device"
    THEN DeviceResolveTag(resolver.obj, state, tag)
    ELSE NodeResolveTag(resolver.obj, state, tag)

(***************************************************************************)
(* NameResolver::name_override: the templates of the first override whose  *)
(* types contain override_type and whose property resolves to its value.   *)
(***************************************************************************)
RECURSIVE OverrideFrom(_, _, _, _, _)
OverrideFrom(resolver, state, overrides, override_type, i) ==
    IF i > Len(overrides) THEN None
    ELSE IF /\ override_type \in overrides[i].types
            /\ resolve_tag(resolver, state, overrides[i].property)
                 = Some(overrides[i].value)
         THEN Some(overrides[i].templates)
         ELSE OverrideFrom(resolver, state, overrides, override_type, i + 1)

(* name_override, but the last matching override wins. *)
name_override_LastMatch(resolver, state, overrides, override_type) ==
    LET m == {i \in 1..Len(overrides) :
                /\ override_type \in overrides[i].types
                /\ resolve_tag(resolver, state, overrides[i].property)
                     = Some(overrides[i].value)}
    IN IF m = {} THEN None
       ELSE Some(overrides[CHOOSE i \in m : \A j \in m : j <= i].templates)

(* name_override, but the override's types are not looked at. *)
name_override_IgnoreTypes(resolver, state, overrides, override_type) ==
    LET m == {i \in 1..Len(overrides) :
                resolve_tag(resolver, state, overrides[i].property)
                     = Some(overrides[i].value)}
    IN IF m = {} THEN None
       ELSE Some(overrides[CHOOSE i \in m : \A j \in m : i <= j].templates)

(* name_override, but a property that does not resolve counts as "". *)
name_override_AbsentIsEmpty(resolver, state, overrides, override_type) ==
    LET m == {i \in 1..Len(overrides) :
                /\ override_type \in overrides[i].types
                /\ UnwrapOr(resolve_tag(resolver, state, overrides[i].property), "")
                     = overrides[i].value}
    IN IF m = {} THEN None
       ELSE Some(overrides[CHOOSE i \in m : \A j \in m : i <= j].templates)

name_override(resolver, state, overrides, override_type) ==
    OverrideFrom(resolver, state, overrides, override_type, 1)

(* MediaClass::is_sink, MediaClass::is_source *)
is_sink(media_class) == media_class = "Audio/Sink"
is_source(media_class) == media_class = "Audio/Source"

(***************************************************************************)
(* impl NameResolver for state::Device                                     *)
(***************************************************************************)
DeviceFallback(self) == self.name

DeviceTemplates(self, state, nms) ==
    UnwrapOr(name_override(DeviceResolver(self), state, nms.overrides, "Device"),
             nms.device)

(***************************************************************************)
(* impl NameResolver for state::Node                                       *)
(***************************************************************************)
NodeFallback(self) == self.name

(* NodeCategory, but only a sink is an endpoint. *)
NodeCategory_SinkOnly(self) ==
    IF self.media_class # None /\ is_sink(Unwrap(self.media_class))
    THEN "Endpoint"
    ELSE "Stream"

(* The arm of the match in templates() that the node's media class takes. *)
NodeCategory(self) ==
    IF /\ self.media_class # None
       /\ is_sink(Unwrap(self.media_class)) \/ is_source(Unwrap(self.media_class))
    THEN "Endpoint"
    ELSE "Stream"

(* NodeTemplates, but an override without templates leaves the defaults. *)
NodeTemplates_EmptyFallsThrough(self, state, nms) ==
    LET cat == NodeCategory(self)
        o == name_override(NodeResolver(self), state, nms.overrides, cat)
        default == IF cat = "Endpoint" THEN nms.endpoint ELSE nms.stream
    IN IF o = None \/ o = Some(<<>>) THEN default ELSE Unwrap(o)

NodeTemplates(self, state, nms) ==
    IF NodeCategory(self) = "Endpoint"
    THEN UnwrapOr(name_override(NodeResolver(self), state, nms.overrides,
                                "Endpoint"),
                  nms.endpoint)
    ELSE UnwrapOr(name_override(NodeResolver(self), state, nms.overrides,
                                "Stream"),
                  nms.stream)

(* NameResolver::fallback and NameResolver::templates, dispatched *)
fallback(resolver) ==
    IF resolver.kind = "Device" THEN DeviceFallback(resolver.obj)
    ELSE NodeFallback(resolver.obj)

templates(resolver, state, nms) ==
    IF resolver.kind = "Device" THEN DeviceTemplates(resolver.obj, state, nms)
    ELSE NodeTemplates(resolver.obj, state, nms)

(***************************************************************************)
(* Names::resolve: the first template of templates() that renders, or the  *)
(* fallback.                                                               *)
(***************************************************************************)
RECURSIVE FindMapRender(_, _, _, _)
FindMapRender(list, i, resolver, state) ==
    IF i > Len(list) THEN None
    ELSE LET resolve_fn == [tag \in Tags |-> resolve_tag(resolver, state, tag)]
             r == render(list[i], resolve_fn)
         IN IF r # None THEN r
            ELSE FindMapRender(list, i + 1, resolver, state)

(* resolve, but the last template that renders wins. *)
resolve_LastRender(nms, state, resolver) ==
    LET list == templates(resolver, state, nms)
        resolve_fn == [tag \in Tags |-> resolve_tag(resolver, state, tag)]
        ok == {i \in 1..Len(list) : render(list[i], resolve_fn) # None}
    IN IF ok = {} THEN fallback(resolver)
       ELSE render(list[CHOOSE i \in ok : \A j \in ok : j <= i], resolve_fn)

(* resolve, but a tag that does not resolve renders as the empty string. *)
resolve_PartialRender(nms, state, resolver) ==
    LET list == templates(resolver, state, nms)
        resolve_fn ==
            [tag \in Tags |->
                Some(UnwrapOr(resolve_tag(resolver, state, tag), ""))]
    IN IF list = <<>> THEN fallback(resolver) ELSE render(list[1], resolve_fn)

(* resolve, but the category's default templates are tried after those of *)
(* an override.                                                            *)
resolve_ThenDefaults(nms, state, resolver) ==
    LET found == FindMapRender(templates(resolver, state, nms), 1, resolver, state)
        defaults ==
            FindMapRender(
                templates(resolver, state, [nms EXCEPT !.overrides = <<>>]),
                1, resolver, state)
    IN IF found # None THEN found
       ELSE IF defaults # None THEN defaults
       ELSE fallback(resolver)

resolve(nms, state, resolver) ==
    LET found == FindMapRender(templates(resolver, state, nms), 1, resolver, state)
    IN IF found # None THEN found ELSE fallback(resolver)

(***************************************************************************)
(* Templates, as NameTemplate::from_str parses them.                       *)
(***************************************************************************)
T_NodeName_MediaName ==
    <<TagSeg(TagNode("NodeName")), Literal(": "), TagSeg(TagNode("MediaName"))>>
T_DeviceNick == <<TagSeg(TagDevice("DeviceNick"))>>
T_DeviceDescription == <<TagSeg(TagDevice("DeviceDescription"))>>
T_NodeDescription == <<TagSeg(TagNode("NodeDescription"))>>
T_NodeNick == <<TagSeg(TagNode("NodeNick"))>>
T_ApplicationName == <<TagSeg(TagClient("ApplicationName"))>>

default_stream == <<T_NodeName_MediaName>>
default_endpoint == <<T_DeviceNick, T_NodeDescription>>
default_device == <<T_DeviceNick, T_DeviceDescription>>

(* impl Default for Names *)
NamesDefault ==
    [stream |-> default_stream, endpoint |-> default_endpoint,
     device |-> default_device, overrides |-> <<>>]

NameOverride(types, property, value, tmpls) ==
    [types |-> types, property |-> property, value |-> value, templates |-> tmpls]

(* The lists the tests configure: render_precedence, render_endpoint_linked_device,
   render_stream_linked_client, and an empty device list. *)
NamesTests ==
    [stream |-> <<T_NodeDescription, T_NodeNick, T_ApplicationName>>,
     endpoint |-> <<T_DeviceNick>>,
     device |-> <<>>,
     overrides |-> <<>>]

(* The default lists under a list of overrides. *)
NamesOverrides ==
    [NamesDefault EXCEPT !.overrides = <<
        NameOverride({"Stream", "Endpoint"}, TagNode("NodeName"), "Node nick",
                     <<<<Literal("unused")>>>>),
        NameOverride({"Endpoint"}, TagDevice("DeviceNick"), "Device nick", <<>>),
        NameOverride({"Device", "Stream"}, TagNode("NodeName"), "Node name",
                     <<T_NodeDescription, T_ApplicationName>>),
        NameOverride({"Device", "Stream", "Endpoint"}, TagNode("NodeNick"),
                     "Node nick", <<T_NodeNick>>),
        NameOverride({"Device"}, TagDevice("DeviceDescription"), "",
                     <<<<Literal("unused")>>>>),
        NameOverride({"Device"}, TagDevice("DeviceName"), "Device nick",
                     <<<<Literal("unused")>>>>),
        NameOverride({"Device"}, TagDevice("DeviceNick"), "Device nick",
                     <<T_DeviceDescription>>)
     >>]

Configs == {NamesDefault, NamesTests, NamesOverrides}

(***************************************************************************)
(* state::State and its update by monitor events.                          *)
(***************************************************************************)
MediaClasses == {"Audio/Sink", "Audio/Source", "Stream/Output/Audio"}

DeviceDefault == [name |-> None, nick |-> None, description |-> None]
NodeDefault ==
    [name |-> None, nick |-> None, description |-> None, media_name |-> None,
     media_class |-> None, device_id |-> None, client_id |-> None]
ClientDefault == [application_name |-> None, application_process_binary |-> None]

(* entry(id).or_default().field = value *)
SetField(map, id, default, field, value) ==
    [i \in DOMAIN map \cup {id} |->
        IF i = id
        THEN [(IF id \in DOMAIN map THEN map[id] ELSE default) EXCEPT ![field] = value]
        ELSE map[i]]

Remove(map, id) == [i \in DOMAIN map \ {id} |-> map[i]]

NoCall == [kind |-> "None"]

(* MonitorEvent::DeviceName and the other events of a property: the object's
   record, made if it is not there, gets the value. *)
DeviceName ==
    /\ devices' = SetField(devices, device_id, DeviceDefault, "name",
                           Some("Device name"))
    /\ last' = NoCall
    /\ UNCHANGED <<names, nodes, clients, hist>>

DeviceNick ==
    /\ devices' = SetField(devices, device_id, DeviceDefault, "nick",
                           Some("Device nick"))
    /\ last' = NoCall
    /\ UNCHANGED <<names, nodes, clients, hist>>

DeviceDescription ==
    /\ devices' = SetField(devices, device_id, DeviceDefault, "description",
                           Some("Device description"))
    /\ last' = NoCall
    /\ UNCHANGED <<names, nodes, clients, hist>>

NodeName ==
    /\ nodes' = SetField(nodes, node_id, NodeDefault, "name", Some("Node name"))
    /\ last' = NoCall
    /\ UNCHANGED <<names, devices, clients, hist>>

NodeNick ==
    /\ nodes' = SetField(nodes, node_id, NodeDefault, "nick", Some("Node nick"))
    /\ last' = NoCall
    /\ UNCHANGED <<names, devices, clients, hist>>

NodeDescription ==
    /\ nodes' = SetField(nodes, node_id, NodeDefault, "description",
                         Some("Node description"))
    /\ last' = NoCall
    /\ UNCHANGED <<names, devices, clients, hist>>

NodeMediaName ==
    /\ nodes' = SetField(nodes, node_id, NodeDefault, "media_name",
                         Some("Media name"))
    /\ last' = NoCall
    /\ UNCHANGED <<names, devices, clients, hist>>

NodeMediaClass ==
    /\ \E mc \in MediaClasses :
          nodes' = SetField(nodes, node_id, NodeDefault, "media_class", Some(mc))
    /\ last' = NoCall
    /\ UNCHANGED <<names, devices, clients, hist>>

NodeDeviceId ==
    /\ \E id \in {device_id} \cup UnknownIds :
          nodes' = SetField(nodes, node_id, NodeDefault, "device_id", Some(id))
    /\ last' = NoCall
    /\ UNCHANGED <<names, devices, clients, hist>>

NodeClientId ==
    /\ \E id \in {client_id} \cup UnknownIds :
          nodes' = SetField(nodes, node_id, NodeDefault, "client_id", Some(id))
    /\ last' = NoCall
    /\ UNCHANGED <<names, devices, clients, hist>>

ClientApplicationName ==
    /\ clients' = SetField(clients, client_id, ClientDefault,
                           "application_name", Some("Client name"))
    /\ last' = NoCall
    /\ UNCHANGED <<names, devices, nodes, hist>>

ClientApplicationProcessBinary ==
    /\ clients' = SetField(clients, client_id, ClientDefault,
                           "application_process_binary", Some("Client binary"))
    /\ last' = NoCall
    /\ UNCHANGED <<names, devices, nodes, hist>>

(* The node loses its link to a device or to a client. *)
NodeUnlinkDevice ==
    /\ node_id \in DOMAIN nodes
    /\ nodes[node_id].device_id # None
    /\ nodes' = SetField(nodes, node_id, NodeDefault, "device_id", None)
    /\ last' = NoCall
    /\ UNCHANGED <<names, devices, clients, hist>>

NodeUnlinkClient ==
    /\ node_id \in DOMAIN nodes
    /\ nodes[node_id].client_id # None
    /\ nodes' = SetField(nodes, node_id, NodeDefault, "client_id", None)
    /\ last' = NoCall
    /\ UNCHANGED <<names, devices, clients, hist>>

(* The object is destroyed. *)
Removed ==
    \E id \in {device_id, node_id, client_id} :
        /\ id \in DOMAIN devices \cup DOMAIN nodes \cup DOMAIN clients
        /\ devices' = Remove(devices, id)
        /\ nodes' = Remove(nodes, id)
        /\ clients' = Remove(clients, id)
        /\ last' = NoCall
        /\ hist' = IF id = node_id THEN {} ELSE hist
        /\ UNCHANGED names

(***************************************************************************)
(* A caller resolves the name of a node or of a device.                    *)
(***************************************************************************)
Call(resolver) ==
    [kind |-> resolver.kind,
     templates |-> templates(resolver, State, names),
     result |-> resolve(names, State, resolver)]

(* What a call on the node leaves in hist: that the node had no media class,
   that its device link led to a device. *)
NodeFacts(node) ==
    (IF node.media_class = None THEN {"unclassified"} ELSE {})
        \cup (IF /\ node.device_id # None
                 /\ Get(devices, Unwrap(node.device_id)) # None
              THEN {"linked"} ELSE {})

ResolveNode ==
    /\ node_id \in DOMAIN nodes
    /\ last' = Call(NodeResolver(nodes[node_id]))
    /\ hist' = hist \cup NodeFacts(nodes[node_id])
    /\ UNCHANGED <<names, devices, nodes, clients>>

ResolveDevice ==
    /\ device_id \in DOMAIN devices
    /\ last' = Call(DeviceResolver(devices[device_id]))
    /\ UNCHANGED <<names, devices, nodes, clients, hist>>

Init ==
    /\ names \in Configs
    /\ devices = <<>>
    /\ nodes = <<>>
    /\ clients = <<>>
    /\ last = NoCall
    /\ hist = {}

Next ==
    \/ DeviceName \/ DeviceNick \/ DeviceDescription
    \/ NodeName \/ NodeNick \/ NodeDescription \/ NodeMediaName
    \/ NodeMediaClass \/ NodeDeviceId \/ NodeClientId
    \/ ClientApplicationName \/ ClientApplicationProcessBinary
    \/ NodeUnlinkDevice \/ NodeUnlinkClient
    \/ Removed
    \/ ResolveNode \/ ResolveDevice

Spec == Init /\ [][Next]_vars

(***************************************************************************)
(* What the properties speak of.                                           *)
(***************************************************************************)
Categories == {"Device", "Endpoint", "Stream"}

Min(S) == CHOOSE x \in S : \A y \in S : x <= y

Called == last.kind # "None"

(* The object of the last call: events and removals reset last, so it is   *)
(* the object as the call saw it.                                          *)
Resolver ==
    IF last.kind = "Node" THEN NodeResolver(nodes[node_id])
    ELSE DeviceResolver(devices[device_id])

(* The object of the last call, if there was one. *)
CalledResolver == IF Called THEN {Resolver} ELSE {}

OwnName(r) == r.obj.name

Value(r, tag) == resolve_tag(r, State, tag)

Rendered(r, t) == render(t, [tag \in Tags |-> Value(r, tag)])

(* The templates of a list that render for r, by position. *)
Rendering(r, list) == {i \in 1..Len(list) : Rendered(r, list[i]) # None}

CategoryOf(r) ==
    IF r.kind = "Device" THEN "Device"
    ELSE IF /\ r.obj.media_class # None
            /\ \/ is_sink(Unwrap(r.obj.media_class))
               \/ is_source(Unwrap(r.obj.media_class))
         THEN "Endpoint"
         ELSE "Stream"

DefaultList(cat) ==
    CASE cat = "Device" -> names.device
      [] cat = "Endpoint" -> names.endpoint
      [] cat = "Stream" -> names.stream

(* The overrides that apply to r taken as a cat, by position. *)
Matching(r, cat) ==
    {i \in 1..Len(names.overrides) :
        /\ cat \in names.overrides[i].types
        /\ Value(r, names.overrides[i].property) = Some(names.overrides[i].value)}

ExpectedList(r, cat) ==
    IF Matching(r, cat) = {} THEN DefaultList(cat)
    ELSE names.overrides[Min(Matching(r, cat))].templates

(* The result the list gives r. *)
FirstRender(r, list) ==
    IF Rendering(r, list) = {} THEN OwnName(r)
    ELSE Rendered(r, list[Min(Rendering(r, list))])

(* The device the node's link leads to, if any. *)
LinkedDevice(node) ==
    IF node.device_id = None THEN None
    ELSE IF Unwrap(node.device_id) \in DOMAIN devices
         THEN Some(devices[Unwrap(node.device_id)])
         ELSE None

LinkedClient(node) ==
    IF node.client_id = None THEN None
    ELSE IF Unwrap(node.client_id) \in DOMAIN clients
         THEN Some(clients[Unwrap(node.client_id)])
         ELSE None

(***************************************************************************)
(* C1: resolve returns the render of the first template, in list order, of *)
(* the list templates() selects that renders against the object; if none   *)
(* renders (or the list is empty) it returns the object's own name; and it *)
(* returns None exactly when none renders and the name is absent.          *)
(***************************************************************************)
C1_FirstRenderOrFallback ==
    Called =>
        LET r == Resolver
            list == templates(r, State, names)
            ok == Rendering(r, list)
        IN /\ last.templates = list
           /\ ok # {} => last.result = Rendered(r, list[Min(ok)])
           /\ ok = {} => last.result = OwnName(r)
           /\ (last.result = None) <=> (ok = {} /\ OwnName(r) = None)

(* The first template fails, a later one renders and one after it would too. *)
C1_Witness ==
    /\ Called
    /\ LET ok == Rendering(Resolver, last.templates)
       IN /\ Cardinality(ok) >= 2
          /\ Min(ok) > 1
          /\ last.result = Rendered(Resolver, last.templates[Min(ok)])
          /\ \E j \in ok : Rendered(Resolver, last.templates[j]) # last.result

TagsOf(t) == {t[i].tag : i \in {j \in 1..Len(t) : t[j].seg = "Tag"}}

Resolves(r, t) == \A tag \in TagsOf(t) : Value(r, tag) # None

RECURSIVE Joined(_, _)
Joined(r, t) ==
    IF t = <<>> THEN ""
    ELSE (IF Head(t).seg = "Literal" THEN Head(t).text
          ELSE Unwrap(Value(r, Head(t).tag))) \o Joined(r, Tail(t))

Range(f) == {f[i] : i \in DOMAIN f}

ConfiguredTemplates ==
    Range(names.stream) \cup Range(names.endpoint) \cup Range(names.device)
        \cup UNION {Range(o.templates) : o \in Range(names.overrides)}

(***************************************************************************)
(* C2: a render succeeds exactly when every tag of the template resolves,  *)
(* and is then the literals and values in segment order; resolve returns   *)
(* the object's own name or such a complete render, never a string with a  *)
(* piece missing.                                                          *)
(***************************************************************************)
C2_AllOrNothing ==
    /\ \A r \in CalledResolver : \A t \in ConfiguredTemplates :
          /\ Rendered(r, t) # None <=> Resolves(r, t)
          /\ Resolves(r, t) => Rendered(r, t) = Some(Joined(r, t))
    /\ Called =>
          \/ last.result = OwnName(Resolver)
          \/ \E t \in Range(last.templates) :
                Resolves(Resolver, t) /\ last.result = Some(Joined(Resolver, t))

(* The default stream template with the node's name and no media name. *)
C2_Witness ==
    /\ last.kind = "Node"
    /\ names = NamesDefault
    /\ last.templates = default_stream
    /\ nodes[node_id].name = Some("Node name")
    /\ nodes[node_id].media_name = None
    /\ last.result = Some("Node name")

(***************************************************************************)
(* C3: the first override, in list order, whose types contain the object's *)
(* category and whose property the object resolves to exactly its value is *)
(* selected, and its templates are used in place of the category's default *)
(* list; later overrides that match too are ignored.                       *)
(***************************************************************************)
C3_FirstMatchingOverride ==
    Called =>
        LET r == Resolver
            m == Matching(r, CategoryOf(r))
        IN m # {} =>
              /\ last.templates = names.overrides[Min(m)].templates
              /\ last.result = FirstRender(r, names.overrides[Min(m)].templates)

(* Two overrides match; the first one's templates name the object, and the
   second's and the default list would each name it otherwise. *)
C3_Witness ==
    /\ Called
    /\ LET r == Resolver
           m == Matching(r, CategoryOf(r))
       IN /\ Cardinality(m) >= 2
          /\ Rendering(r, last.templates) # {}
          /\ \A i \in m \ {Min(m)} :
                FirstRender(r, names.overrides[i].templates) # last.result
          /\ FirstRender(r, DefaultList(CategoryOf(r))) # last.result
          /\ Rendering(r, DefaultList(CategoryOf(r))) # {}

(***************************************************************************)
(* C4: an override whose types exclude the object's category, or whose     *)
(* value differs from what the object resolves its property to, is         *)
(* skipped; when all are skipped templates() is the category's default     *)
(* list and resolve returns what it returns with no overrides configured.  *)
(***************************************************************************)
C4_NoMatchGivesDefaults ==
    Called =>
        LET r == Resolver
        IN Matching(r, CategoryOf(r)) = {} =>
              /\ last.templates = DefaultList(CategoryOf(r))
              /\ last.result = FirstRender(r, DefaultList(CategoryOf(r)))
              /\ last.result = resolve([names EXCEPT !.overrides = <<>>], State, r)

(* Overrides are configured and all skipped: one for its types though its
   value is the object's, one for its value though its types apply and the
   property is present; a default template names the object. *)
C4_Witness ==
    /\ Called
    /\ LET r == Resolver
           cat == CategoryOf(r)
       IN /\ Matching(r, cat) = {}
          /\ \E i \in 1..Len(names.overrides) :
                /\ cat \notin names.overrides[i].types
                /\ Value(r, names.overrides[i].property)
                     = Some(names.overrides[i].value)
          /\ \E i \in 1..Len(names.overrides) :
                /\ cat \in names.overrides[i].types
                /\ Value(r, names.overrides[i].property) # None
          /\ Rendering(r, DefaultList(cat)) # {}
          /\ last.result # OwnName(r)

(***************************************************************************)
(* C5: a matching override without templates is selected all the same:     *)
(* resolve returns the object's own name and does not try the category's   *)
(* default templates, even when one of them would render.                  *)
(***************************************************************************)
C5_EmptyOverrideGivesFallback ==
    Called =>
        LET r == Resolver
            m == Matching(r, CategoryOf(r))
        IN (m # {} /\ names.overrides[Min(m)].templates = <<>>) =>
              /\ last.templates = <<>>
              /\ last.result = OwnName(r)

C5_Witness ==
    /\ Called
    /\ LET r == Resolver
           m == Matching(r, CategoryOf(r))
       IN /\ m # {}
          /\ names.overrides[Min(m)].templates = <<>>
          /\ Rendering(r, DefaultList(CategoryOf(r))) # {}
          /\ OwnName(r) # None
          /\ last.result = OwnName(r)

DeviceField(d, tag) ==
    CASE tag.tag = "DeviceName" -> d.name
      [] tag.tag = "DeviceNick" -> d.nick
      [] tag.tag = "DeviceDescription" -> d.description

ClientField(c, tag) ==
    CASE tag.tag = "ApplicationName" -> c.application_name
      [] tag.tag = "ApplicationProcessBinary" -> c.application_process_binary

(***************************************************************************)
(* C6: forwarding goes one way.  A Device resolves no Node tag and no      *)
(* Client tag, a Client no Device tag and no Node tag.  A Node resolves a  *)
(* Device tag to None when it has no device_id or the lookup misses, and   *)
(* otherwise to what the linked Device resolves it to; the same for Client *)
(* tags through client_id.                                                 *)
(***************************************************************************)
C6_OneWayForwarding ==
    /\ \A i \in DOMAIN devices : \A tag \in Tags :
          DeviceResolveTag(devices[i], State, tag) =
              IF tag.kind = "Device" THEN DeviceField(devices[i], tag) ELSE None
    /\ \A i \in DOMAIN clients : \A tag \in Tags :
          ClientResolveTag(clients[i], State, tag) =
              IF tag.kind = "Client" THEN ClientField(clients[i], tag) ELSE None
    /\ \A i \in DOMAIN nodes : \A tag \in Tags :
          LET node == nodes[i]
              got == NodeResolveTag(node, State, tag)
          IN /\ tag.kind = "Device" =>
                  got = IF LinkedDevice(node) = None THEN None
                        ELSE DeviceField(Unwrap(LinkedDevice(node)), tag)
             /\ tag.kind = "Client" =>
                  got = IF LinkedClient(node) = None THEN None
                        ELSE ClientField(Unwrap(LinkedClient(node)), tag)

(* A node named by the nick of the device it is linked to, next to a client
   it is not linked to. *)
C6_Witness ==
    /\ last.kind = "Node"
    /\ LinkedDevice(nodes[node_id]) # None
    /\ Unwrap(LinkedDevice(nodes[node_id])).nick = Some("Device nick")
    /\ last.result = Some("Device nick")
    /\ nodes[node_id].client_id = None
    /\ client_id \in DOMAIN clients
    /\ clients[client_id].application_name # None

(***************************************************************************)
(* C7: each call computes the node's category from its media class as it   *)
(* is then: the Endpoint overrides and default list when the media class   *)
(* is present and a sink or a source, the Stream ones otherwise.  A Device *)
(* is always of category Device.                                           *)
(***************************************************************************)
C7_CategoryFromCurrentMediaClass ==
    /\ last.kind = "Node" =>
          LET node == nodes[node_id]
              endpoint ==
                  /\ node.media_class # None
                  /\ \/ is_sink(Unwrap(node.media_class))
                     \/ is_source(Unwrap(node.media_class))
          IN last.templates =
                ExpectedList(NodeResolver(node),
                             IF endpoint THEN "Endpoint" ELSE "Stream")
    /\ last.kind = "Device" =>
          last.templates = ExpectedList(DeviceResolver(devices[device_id]), "Device")

(* A node that an earlier call found without a media class is now a source
   and gets the endpoint list, which differs from the stream list. *)
C7_Witness ==
    /\ last.kind = "Node"
    /\ "unclassified" \in hist
    /\ nodes[node_id].media_class = Some("Audio/Source")
    /\ last.templates = ExpectedList(NodeResolver(nodes[node_id]), "Endpoint")
    /\ last.templates # ExpectedList(NodeResolver(nodes[node_id]), "Stream")

OnlyDeviceTags(list) ==
    /\ list # <<>>
    /\ \A i \in 1..Len(list) : \A j \in 1..Len(list[i]) :
          list[i][j].seg = "Tag" /\ list[i][j].tag.kind = "Device"

C8_Case ==
    /\ last.kind = "Node"
    /\ CategoryOf(NodeResolver(nodes[node_id])) = "Endpoint"
    /\ nodes[node_id].name # None
    /\ OnlyDeviceTags(names.endpoint)
    /\ Matching(NodeResolver(nodes[node_id]), "Endpoint") = {}

(***************************************************************************)
(* C8: an endpoint node with a name, an endpoint list of Device-tag        *)
(* templates only and no matching override is named by its linked device   *)
(* while the link leads to a device that has the property, and by its own  *)
(* name whenever the link is absent, removed or dangling or the device     *)
(* lacks the property; so also after the link was there and went away.     *)
(***************************************************************************)
C8_LinkedDeviceOrOwnName ==
    C8_Case =>
        LET node == nodes[node_id]
            device == LinkedDevice(node)
            has == {i \in 1..Len(names.endpoint) :
                      \A j \in 1..Len(names.endpoint[i]) :
                          DeviceField(Unwrap(device), names.endpoint[i][j].tag) # None}
        IN IF device = None \/ has = {}
           THEN last.result = node.name
           ELSE /\ last.result # node.name
                /\ names.endpoint = <<T_DeviceNick>> =>
                      last.result = Unwrap(device).nick

(* The link led to a device at an earlier call and is gone. *)
C8_Witness ==
    /\ C8_Case
    /\ "linked" \in hist
    /\ nodes[node_id].device_id = None
    /\ device_id \in DOMAIN devices
    /\ devices[device_id].nick = Some("Device nick")
    /\ last.result = Some("Node name")

C9_Case ==
    /\ Called
    /\ LET m == Matching(Resolver, CategoryOf(Resolver))
       IN /\ m # {}
          /\ names.overrides[Min(m)].templates # <<>>
          /\ Rendering(Resolver, names.overrides[Min(m)].templates) = {}

(***************************************************************************)
(* C9: once an override matches, its templates stand for the defaults even *)
(* when it has some and none renders: resolve returns the object's own     *)
(* name, whatever a later matching override or the category's default list *)
(* would render.                                                           *)
(***************************************************************************)
C9_FailedOverrideGivesFallback == C9_Case => last.result = OwnName(Resolver)

(* A later override matches too and one of its templates renders, and so
   does a template of the default list. *)
C9_Witness ==
    /\ C9_Case
    /\ LET r == Resolver
           m == Matching(r, CategoryOf(r))
       IN /\ \E i \in m \ {Min(m)} : Rendering(r, names.overrides[i].templates) # {}
          /\ Rendering(r, DefaultList(CategoryOf(r))) # {}
          /\ OwnName(r) # None
          /\ last.result = OwnName(r)

OverrideValues == {"", "Node name", "Device nick", "Client name"}

(* Whether name_override selects an override of every type on tag = value. *)
Selects(r, tag, value) ==
    name_override(r, State, <<NameOverride(Categories, tag, value, <<>>)>>,
                  CategoryOf(r)) # None

(***************************************************************************)
(* C10: an override whose property the object does not resolve never       *)
(* matches, whatever its value, the empty string included.  So no override *)
(* on a Node tag or a Client tag matches a Device, and one on a Device (or *)
(* Client) tag matches a Node only while the node's link leads to a device *)
(* (or client) whose property is the value.                                *)
(***************************************************************************)
C10_AbsentNeverMatches ==
    /\ \A r \in CalledResolver : \A tag \in Tags : \A value \in OverrideValues :
          LET selected == Selects(r, tag, value)
          IN IF ~selected THEN TRUE
             ELSE /\ Value(r, tag) # None
                  /\ r.kind = "Device" => tag.kind = "Device"
                  /\ (r.kind = "Node" /\ tag.kind = "Device") =>
                        /\ LinkedDevice(r.obj) # None
                        /\ DeviceField(Unwrap(LinkedDevice(r.obj)), tag) = Some(value)
                  /\ (r.kind = "Node" /\ tag.kind = "Client") =>
                        /\ LinkedClient(r.obj) # None
                        /\ ClientField(Unwrap(LinkedClient(r.obj)), tag) = Some(value)
    /\ Called =>
          \A i \in Matching(Resolver, CategoryOf(Resolver)) :
              Value(Resolver, names.overrides[i].property) # None

(* A device is resolved under an override for devices on the name of the
   node that is linked to it: the override does not match and the device
   gets its default list. *)
C10_Witness ==
    /\ last.kind = "Device"
    /\ node_id \in DOMAIN nodes
    /\ nodes[node_id].device_id = Some(device_id)
    /\ \E i \in 1..Len(names.overrides) :
          /\ "Device" \in names.overrides[i].types
          /\ names.overrides[i].property = TagNode("NodeName")
          /\ nodes[node_id].name = Some(names.overrides[i].value)
    /\ Matching(Resolver, "Device") = {}
    /\ last.templates = names.device
    /\ Rendering(Resolver, names.device) # {}

====
